---- MODULE Spec2Model ----
(***************************************************************************)
(* CoverCraft: a model of the cover-letter cache (helpers.py), the content *)
(* hash and the placeholder substitution (utils.py), the token budget      *)
(* guard (helpers.py) and the Streamlit script (app.py).                   *)
(*                                                                         *)
(* Texts are sequences of one-character strings.  The characters "R" and   *)
(* "J" abbreviate blocks of text of RESUME_MAX_TOKENS and                  *)
(* JOB_DESC_MAX_TOKENS tokens; every other character is one token.         *)
(***************************************************************************)
EXTENDS Integers, Sequences, FiniteSets, TLC

(* ------------------------------------------------------------------ *)
(* constants.py                                                        *)
(* ------------------------------------------------------------------ *)
RESUME_MAX_TOKENS == 8000
JOB_DESC_MAX_TOKENS == 3000
TOTAL_SAFE_LIMIT == 16000
CACHE_TTL == 3600

(* ------------------------------------------------------------------ *)
(* bounds of the model                                                 *)
(* ------------------------------------------------------------------ *)
\* the clock advances in steps of just over half a TTL, at most MaxTicks times
MaxTicks == 2

TickLen == CACHE_TTL \div 2 + 1

\* Python's None
None == "None"

VARIABLES
    api_key,        \* os.getenv("OPENAI_API_KEY") is set (fixed for the process)
    tokenizer_ok,   \* tiktoken can load and apply the encoding (fixed likewise)
    session_state,  \* st.session_state: key -> letter, for the keys present
    cache_data,     \* the st.cache_data store of generate_cover_letter_with_cache
    now,            \* the clock, in seconds
    last,           \* what the last operation on the cache did and returned
    stored_by,      \* history: which call wrote each session_state key, and when
    args,           \* the arguments of a pure function under check
    ret,            \* its result ("pending" before the call, "idle" if none)
    app_session,    \* app.py: st.session_state.generated_cover_letter (None: absent)
    widgets,        \* app.py: the file uploader's and the text area's values
    run             \* app.py: what the last run of the script did

vars == <<api_key, tokenizer_ok, session_state, cache_data, now, last,
          stored_by, args, ret, app_session, widgets, run>>

(* ------------------------------------------------------------------ *)
(* utils.py                                                            *)
(* ------------------------------------------------------------------ *)
\* len(encoding.encode(text)): the sum of the characters' token counts
RECURSIVE encode_len(_)
encode_len(text) ==
    IF text = <<>> THEN 0
    ELSE (CASE Head(text) = "R" -> RESUME_MAX_TOKENS
            [] Head(text) = "J" -> JOB_DESC_MAX_TOKENS
            [] OTHER -> 1) + encode_len(Tail(text))

\* count_tokens without its except clause turning the failure into 0: the
\* count is the text's whatever the tokenizer's state
count_tokens_unguarded(text) == encode_len(text)

\* count_tokens: 0 when tiktoken raises
count_tokens(text) == IF tokenizer_ok THEN encode_len(text) ELSE 0

\* app.py count_tokens(text, tokenizer): the tokenizer of initialize_tokenizer
\* at work (the script runs with tokenizer_ok)
app_count_tokens(text) == encode_len(text)

\* hashlib.md5(...).hexdigest(), taken to be collision free: the digest of a
\* content is the content under the tag "md5"
md5_hexdigest(content) == <<"md5", content>>

calculate_content_hash(resume_text, job_description) ==
    LET content == resume_text \o <<"|">> \o job_description
    IN  md5_hexdigest(content)

\* text[i..] starts with pat
StartsWith(text, pat) ==
    Len(pat) <= Len(text) /\ SubSeq(text, 1, Len(pat)) = pat

\* pat occurs in text
Contains(text, pat) ==
    \E i \in 1..(Len(text) - Len(pat) + 1) :
        SubSeq(text, i, i + Len(pat) - 1) = pat

\* what re.sub raises on a replacement it cannot parse
ReError == "re.error"

\* the ASCII letters of the model's alphabet
AsciiLetters == {"A", "B"}

\* re.sub's reading of the replacement string: a doubled backslash is one
\* backslash, a backslash before a character that is not an ASCII letter stays
\* with it, and a backslash before a letter that names no escape, or at the
\* end, is a bad escape
RECURSIVE parse_template(_)
parse_template(repl) ==
    IF repl = <<>> THEN <<>>
    ELSE IF Head(repl) # "\\"
    THEN LET rest == parse_template(Tail(repl))
         IN  IF rest = ReError THEN ReError ELSE <<Head(repl)>> \o rest
    ELSE IF Len(repl) = 1 THEN ReError
    ELSE IF repl[2] \in AsciiLetters THEN ReError
    ELSE LET rest == parse_template(SubSeq(repl, 3, Len(repl)))
         IN  IF rest = ReError THEN ReError
             ELSE IF repl[2] = "\\" THEN <<"\\">> \o rest
             ELSE <<"\\", repl[2]>> \o rest

\* the leftmost non-overlapping occurrences of the literal pat replaced by out
RECURSIVE sub_literal(_, _, _)
sub_literal(pat, out, text) ==
    IF Len(text) < Len(pat) THEN text
    ELSE IF StartsWith(text, pat)
    THEN out \o sub_literal(pat, out, SubSeq(text, Len(pat) + 1, Len(text)))
    ELSE <<Head(text)>> \o sub_literal(pat, out, Tail(text))

\* a faulty re.sub: only the first occurrence is replaced (count=1)
re_sub_first(placeholder, value, text) ==
    LET pattern == <<"[">> \o placeholder \o <<"]">>
        out == parse_template(value)
        at == {i \in 1..Len(text) :
                  StartsWith(SubSeq(text, i, Len(text)), pattern)}
        i0 == CHOOSE i \in at : \A k \in at : i <= k
    IN  IF out = ReError THEN ReError
        ELSE IF at = {} THEN text
        ELSE SubSeq(text, 1, i0 - 1) \o out
                 \o SubSeq(text, i0 + Len(pattern), Len(text))

\* re.sub(f'\\[{re.escape(placeholder)}\\]', value, text)
re_sub(placeholder, value, text) ==
    LET pattern == <<"[">> \o placeholder \o <<"]">>
        out == parse_template(value)
    IN  IF out = ReError THEN ReError ELSE sub_literal(pattern, out, text)

\* replace_placeholders: placeholder_values is the dict as the sequence of its
\* (placeholder, value) items, in the order the loop visits them
RECURSIVE replace_placeholders(_, _)
replace_placeholders(text, placeholder_values) ==
    IF placeholder_values = <<>> THEN text
    ELSE LET item == Head(placeholder_values)
             t == re_sub(item[1], item[2], text)
         IN  IF t = ReError THEN ReError
             ELSE replace_placeholders(t, Tail(placeholder_values))

\* app.py replace_placeholders_with_regex: the same loop over personal_info
RECURSIVE replace_placeholders_with_regex(_, _)
replace_placeholders_with_regex(cover_letter, personal_info) ==
    IF personal_info = <<>> THEN cover_letter
    ELSE LET item == Head(personal_info)
             personalized_letter == re_sub(item[1], item[2], cover_letter)
         IN  IF personalized_letter = ReError THEN ReError
             ELSE replace_placeholders_with_regex(personalized_letter,
                                                  Tail(personal_info))

(* ------------------------------------------------------------------ *)
(* helpers.py                                                          *)
(* ------------------------------------------------------------------ *)
\* check_openai_api_key: (ok, the messages it shows)
check_openai_api_key(key) ==
    IF ~key THEN [ok |-> FALSE, msgs |-> {"no_api_key", "api_key_info"}]
    ELSE [ok |-> TRUE, msgs |-> {}]

\* a faulty validate_token_limits: the job description is checked first
validate_token_limits_jd_first(resume_text, job_description) ==
    LET resume_tokens == count_tokens(resume_text)
        job_desc_tokens == count_tokens(job_description)
        total_tokens == resume_tokens + job_desc_tokens
    IN  IF job_desc_tokens > JOB_DESC_MAX_TOKENS
        THEN <<FALSE, <<"job description", job_desc_tokens>>>>
        ELSE IF resume_tokens > RESUME_MAX_TOKENS
        THEN <<FALSE, <<"resume", resume_tokens>>>>
        ELSE IF total_tokens > TOTAL_SAFE_LIMIT
        THEN <<FALSE, <<"total content", total_tokens>>>>
        ELSE <<TRUE, <<>>>>

\* validate_token_limits: (False, (part, its tokens)) or (True, "")
validate_token_limits(resume_text, job_description) ==
    LET resume_tokens == count_tokens(resume_text)
        job_desc_tokens == count_tokens(job_description)
        total_tokens == resume_tokens + job_desc_tokens
    IN  IF resume_tokens > RESUME_MAX_TOKENS
        THEN <<FALSE, <<"resume", resume_tokens>>>>
        ELSE IF job_desc_tokens > JOB_DESC_MAX_TOKENS
        THEN <<FALSE, <<"job description", job_desc_tokens>>>>
        ELSE IF total_tokens > TOTAL_SAFE_LIMIT
        THEN <<FALSE, <<"total content", total_tokens>>>>
        ELSE <<TRUE, <<>>>>

\* str.strip(): the text without its leading and trailing blanks
RECURSIVE lstrip(_)
lstrip(text) ==
    IF text # <<>> /\ Head(text) = " " THEN lstrip(Tail(text)) ELSE text

RECURSIVE rstrip(_)
rstrip(text) ==
    IF text # <<>> /\ text[Len(text)] = " "
    THEN rstrip(SubSeq(text, 1, Len(text) - 1)) ELSE text

strip(text) == rstrip(lstrip(text))

\* Python's truth value of an Optional[str]
Truthy(x) == x # None /\ x # <<>>

\* What client.chat.completions.create can do: answer with a content, or raise
Contents == {<<"x">>, <<"y">>, <<" ">>}

ApiErrors == {"AuthenticationError", "RateLimitError", "APIError", "Exception"}

ApiOutcomes ==
    {[kind |-> "ok", content |-> c] : c \in Contents}
    \cup {[kind |-> k, content |-> <<>>] : k \in ApiErrors}

\* The body of generate_cover_letter_with_cache, the completion request
\* answering with outcome o: the value returned, the messages shown and the
\* number of completion requests issued
generate_body(key, resume_text, job_description, o) ==
    LET chk == check_openai_api_key(key)
        v == validate_token_limits(resume_text, job_description)
        cover_letter == strip(o.content)
    IN  IF ~chk.ok
        THEN [value |-> None, msgs |-> chk.msgs, requests |-> 0]
        ELSE IF ~v[1]
        THEN [value |-> None, msgs |-> {"token_limit_exceeded"}, requests |-> 0]
        ELSE IF o.kind = "AuthenticationError"
        THEN [value |-> None, msgs |-> {"invalid_api_key"}, requests |-> 1]
        ELSE IF o.kind = "RateLimitError"
        THEN [value |-> None, msgs |-> {"rate_limit_exceeded"}, requests |-> 1]
        ELSE IF o.kind = "APIError"
        THEN [value |-> None, msgs |-> {"api_error"}, requests |-> 1]
        ELSE IF o.kind = "Exception"
        THEN [value |-> None, msgs |-> {"unexpected_error"}, requests |-> 1]
        ELSE IF ~Truthy(cover_letter)
        THEN [value |-> None, msgs |-> {"generation_failed"}, requests |-> 1]
        ELSE [value |-> cover_letter, msgs |-> {}, requests |-> 1]

\* @st.cache_data(ttl=3600): an entry is live for CACHE_TTL seconds after it
\* was written
Live(entry, time) == time < entry.stored + CACHE_TTL

\* generate_cover_letter_with_cache as callers see it, through @st.cache_data:
\* the arguments are the key; a live entry is returned, and its messages are
\* replayed, without running the body; otherwise the body runs and what it
\* returns is written (the write drops the entries that have expired)
generate_cover_letter_with_cache(store, time, key, resume_text, job_description, content_hash, o) ==
    LET k == <<resume_text, job_description, content_hash>>
        hit == k \in DOMAIN store /\ Live(store[k], time)
        b == generate_body(key, resume_text, job_description, o)
        kept == {x \in DOMAIN store : Live(store[x], time) /\ x # k}
        entry == [value |-> b.value, msgs |-> b.msgs, stored |-> time]
    IN  IF hit
        THEN [value |-> store[k].value, msgs |-> store[k].msgs, requests |-> 0,
              source |-> "cache_data", age |-> time - store[k].stored,
              store |-> store]
        ELSE [value |-> b.value, msgs |-> b.msgs, requests |-> b.requests,
              source |-> "generated", age |-> 0,
              store |-> [x \in kept \cup {k} |->
                            IF x = k THEN entry ELSE store[x]]]

(* ------------------------------------------------------------------ *)
(* The cache: the inputs and the operations                            *)
(* ------------------------------------------------------------------ *)
\* the (resume_text, job_description) pairs the user submits: two pairs whose
\* joined contents coincide, and a pair whose resume exceeds its ceiling
Inputs == {<< <<"a", "|">>, <<"a">> >>, << <<"a">>, <<"|", "a">> >>,
           << <<"R", "a">>, <<"a">> >>}

\* the operation before the last one, as far as the properties need it
NoPrev ==
    [op |-> "none", resume |-> <<>>, job |-> <<>>, result |-> None,
     requests |-> 0, source |-> "none"]

Summary(call) ==
    [op |-> call.op, resume |-> call.resume, job |-> call.job,
     result |-> call.result, requests |-> call.requests,
     source |-> call.source]

NoCall ==
    [op |-> "none", resume |-> <<>>, job |-> <<>>, result |-> None,
     requests |-> 0, source |-> "none", msgs |-> {}, age |-> 0, owner |-> <<>>,
     prev |-> NoPrev]

\* a faulty store: the letter is not written to st.session_state
session_put_skipped(state, key, letter) == state

\* st.session_state[key] = letter
session_put(state, key, letter) ==
    [x \in DOMAIN state \cup {key} |-> IF x = key THEN letter ELSE state[x]]

PureIdle == args = <<>> /\ ret = "idle"

\* the file uploader with no file in it
NoFile == [present |-> FALSE, corrupt |-> FALSE, text |-> <<>>]

NoWidgets == [resume |-> NoFile, job_description |-> <<>>]

NoRun ==
    [fn |-> "none", pressed |-> "none", msgs |-> {}, processed |-> FALSE,
     requests |-> 0, uncaught |-> FALSE, reached_generate |-> FALSE,
     final_resume_text |-> <<>>, final_job_description |-> <<>>,
     form_shown |-> FALSE]

AppIdle == app_session = None /\ widgets = NoWidgets /\ run = NoRun

Init ==
    /\ api_key \in BOOLEAN
    /\ session_state = <<>>
    /\ cache_data = <<>>
    /\ now = 0
    /\ last = NoCall
    /\ stored_by = <<>>
    /\ tokenizer_ok = TRUE
    /\ PureIdle
    /\ AppIdle

\* get_cached_cover_letter(resume_text, job_description)
get_cached_cover_letter(resume_text, job_description, o) ==
    LET content_hash == calculate_content_hash(resume_text, job_description)
        cache_key == <<"cover_letter_", content_hash>>
        cached_letter == IF cache_key \in DOMAIN session_state
                         THEN session_state[cache_key] ELSE None
        g == generate_cover_letter_with_cache(cache_data, now, api_key,
                 resume_text, job_description, content_hash, o)
        cover_letter == g.value
    IN  IF Truthy(cached_letter)
        THEN /\ last' = [op |-> "get",
                         resume |-> resume_text, job |-> job_description,
                         result |-> cached_letter, requests |-> 0,
                         source |-> "session_state", msgs |-> {},
                         age |-> now - stored_by[cache_key].at,
                         owner |-> stored_by[cache_key].pair,
                         prev |-> Summary(last)]
             /\ UNCHANGED <<session_state, cache_data, stored_by>>
        ELSE /\ cache_data' = g.store
             /\ IF Truthy(cover_letter)
                THEN /\ session_state' =
                            session_put(session_state, cache_key, cover_letter)
                     /\ stored_by' =
                            [x \in DOMAIN session_state' |->
                                IF x = cache_key
                                THEN [pair |-> <<resume_text, job_description>>,
                                      at |-> now]
                                ELSE stored_by[x]]
                ELSE UNCHANGED <<session_state, stored_by>>
             /\ last' = [op |-> "get",
                         resume |-> resume_text, job |-> job_description,
                         result |-> IF Truthy(cover_letter) THEN cover_letter
                                    ELSE None,
                         requests |-> g.requests, source |-> g.source,
                         msgs |-> g.msgs, age |-> g.age,
                         owner |-> <<resume_text, job_description>>,
                         prev |-> Summary(last)]

GetCachedCoverLetter ==
    \E p \in Inputs, o \in ApiOutcomes :
        /\ get_cached_cover_letter(p[1], p[2], o)
        /\ UNCHANGED <<api_key, tokenizer_ok, now, args, ret, app_session, widgets, run>>

\* the keys clear_cover_letter_cache removes
keys_to_remove(state) == {key \in DOMAIN state : key[1] = "cover_letter_"}

\* clear_cover_letter_cache()
ClearCoverLetterCache ==
    LET keep == DOMAIN session_state \ keys_to_remove(session_state)
    IN  /\ session_state' = [x \in keep |-> session_state[x]]
        /\ stored_by' = [x \in keep |-> stored_by[x]]
        /\ last' = [NoCall EXCEPT !.op = "clear", !.prev = Summary(last)]
        /\ UNCHANGED <<api_key, tokenizer_ok, cache_data, now, args, ret, app_session,
                       widgets, run>>

\* time passes between two reruns of the script
Tick ==
    /\ now < MaxTicks * TickLen
    /\ now' = now + TickLen
    /\ UNCHANGED <<api_key, tokenizer_ok, session_state, cache_data, last, stored_by, args,
                   ret, app_session, widgets, run>>

Next == GetCachedCoverLetter \/ ClearCoverLetterCache \/ Tick

Spec == Init /\ [][Next]_vars

(* ------------------------------------------------------------------ *)
(* The cache: properties                                               *)
(* ------------------------------------------------------------------ *)
\* the last two operations were get_cached_cover_letter on the same pair
Consecutive ==
    /\ last.op = "get"
    /\ last.prev.op = "get"
    /\ last.prev.resume = last.resume
    /\ last.prev.job = last.job

\* C1 as stated: two consecutive calls of get_cached_cover_letter with the
\* same pair issue the completion request exactly once between them, and the
\* second call returns what the first returned.
C1_ExactlyOnce ==
    Consecutive =>
        /\ last.prev.requests + last.requests = 1
        /\ last.result = last.prev.result

\* C1 amended: when the first of two consecutive calls with the same pair
\* returns a letter, the second call issues no completion request and returns
\* that same letter; over the two calls the request is issued exactly once
\* when the first call had to generate the letter, and not at all otherwise.
C1_HitAfterLetter ==
    (Consecutive /\ last.prev.result # None) =>
        /\ last.requests = 0
        /\ last.result = last.prev.result
        /\ last.prev.requests + last.requests =
               (IF last.prev.source = "generated" THEN 1 ELSE 0)

\* C1 witness: a generated letter was returned again, after the TTL of the
\* decorator had passed, by the next call with the same pair
C1_Witness ==
    /\ Consecutive
    /\ last.prev.source = "generated"
    /\ last.prev.requests = 1
    /\ Truthy(last.prev.result)
    /\ last.source = "session_state"
    /\ last.result = last.prev.result
    /\ last.age > CACHE_TTL

\* C2 as stated: a call with a pair never returns the entry another pair
\* stored; what it returns was stored, or is generated, for its own pair.
C2_DistinctEntries ==
    last.op = "get" => last.owner = <<last.resume, last.job>>

\* C3 as stated: no cache layer ever holds a failed generation, and the call
\* after a failed one with the same inputs runs the generation again.
C3_FailureNotCached ==
    /\ \A k \in DOMAIN cache_data : cache_data[k].value # None
    /\ \A k \in DOMAIN session_state : session_state[k] # None
    /\ (Consecutive /\ last.prev.result = None) => last.source = "generated"

\* C4 as stated: a letter returned by get_cached_cover_letter was stored at
\* most CACHE_TTL seconds before the call (an older one is a miss).
C4_Expires ==
    (last.op = "get" /\ last.result # None) => last.age <= CACHE_TTL

\* C5 as stated: after clear_cover_letter_cache no layer holds a live letter,
\* and the next get_cached_cover_letter call is a miss that runs the
\* generation.
C5_ClearRemovesAll ==
    /\ last.op = "clear" =>
          /\ keys_to_remove(session_state) = {}
          /\ \A k \in DOMAIN cache_data :
                ~(Live(cache_data[k], now) /\ Truthy(cache_data[k].value))
    /\ (last.op = "get" /\ last.prev.op = "clear") => last.source = "generated"

(* ------------------------------------------------------------------ *)
(* Pure functions: each specification draws the arguments in its       *)
(* initial state and applies the function once                         *)
(* ------------------------------------------------------------------ *)
StoresIdle ==
    /\ api_key = TRUE
    /\ session_state = <<>>
    /\ cache_data = <<>>
    /\ now = 0
    /\ last = NoCall
    /\ stored_by = <<>>

CacheIdle == StoresIdle /\ tokenizer_ok = TRUE

\* the texts over alphabet of at most n characters
RECURSIVE TextsUpTo(_, _)
TextsUpTo(alphabet, n) ==
    IF n = 0 THEN {<<>>}
    ELSE LET shorter == TextsUpTo(alphabet, n - 1)
         IN  shorter \cup {t \o <<c>> : t \in shorter, c \in alphabet}

Return(value) ==
    /\ ret = "pending"
    /\ ret' = value
    /\ UNCHANGED <<api_key, tokenizer_ok, session_state, cache_data, now, last, stored_by,
                   args, app_session, widgets, run>>

(* ---- validate_token_limits ---- *)
MaxBudgetLen == 2

BudgetTexts == TextsUpTo({"a", "J", "R"}, MaxBudgetLen)

InitValidate ==
    /\ args \in BudgetTexts \X BudgetTexts
    /\ ret = "pending"
    /\ CacheIdle
    /\ AppIdle

ValidateTokenLimits == Return(validate_token_limits(args[1], args[2]))

SpecValidate == InitValidate /\ [][ValidateTokenLimits]_vars

\* C7: validate_token_limits reports the first failing check in the order
\* resume, job description, total, with that part's token count, and returns
\* (True, "") exactly when no check fails.
C7_FirstViolation ==
    ret # "pending" =>
        LET rt == count_tokens(args[1])
            jt == count_tokens(args[2])
            resumeFails == rt > RESUME_MAX_TOKENS
            jobFails == jt > JOB_DESC_MAX_TOKENS
            totalFails == rt + jt > TOTAL_SAFE_LIMIT
        IN  /\ resumeFails => ret = <<FALSE, <<"resume", rt>>>>
            /\ (~resumeFails /\ jobFails) =>
                   ret = <<FALSE, <<"job description", jt>>>>
            /\ (~resumeFails /\ ~jobFails /\ totalFails) =>
                   ret = <<FALSE, <<"total content", rt + jt>>>>
            /\ (ret = <<TRUE, <<>>>>) <=>
                   (~resumeFails /\ ~jobFails /\ ~totalFails)

\* C7 witness: all three checks fail and the resume is the part reported
C7_Witness ==
    /\ ret # "pending"
    /\ count_tokens(args[1]) > RESUME_MAX_TOKENS
    /\ count_tokens(args[2]) > JOB_DESC_MAX_TOKENS
    /\ count_tokens(args[1]) + count_tokens(args[2]) > TOTAL_SAFE_LIMIT
    /\ ret[1] = FALSE
    /\ ret[2][1] = "resume"

(* ---- calculate_content_hash ---- *)
MaxHashLen == 2

HashTexts == TextsUpTo({"a", "|"}, MaxHashLen)

InitHash ==
    /\ args \in HashTexts \X HashTexts \X HashTexts \X HashTexts
    /\ ret = "pending"
    /\ CacheIdle
    /\ AppIdle

CalculateContentHash ==
    Return(<<calculate_content_hash(args[1], args[2]),
             calculate_content_hash(args[3], args[4])>>)

SpecHash == InitHash /\ [][CalculateContentHash]_vars

\* C8 as stated: different pairs have different fingerprints (the digest
\* being collision free); in particular swapping two different strings
\* changes the fingerprint.
C8_Injective ==
    ret # "pending" =>
        (<<args[1], args[2]>> # <<args[3], args[4]>> => ret[1] # ret[2])

(* ---- replace_placeholders ---- *)
MaxTextLen == 6

LetterTexts == TextsUpTo({"A", "B", "[", "]"}, MaxTextLen)

Labels == {<<"A">>, <<"B">>}

Values == {<<"A">>, <<"B">>, <<"[", "A", "]">>, <<"[", "B", "]">>,
           <<"\\", "\\">>}

\* the dicts over Labels, as their items in insertion order
Dicts ==
    {<<>>}
    \cup {<< <<l, v>> >> : l \in Labels, v \in Values}
    \cup {<< <<l[1], v1>>, <<l[2], v2>> >> :
            l \in {x \in Labels \X Labels : x[1] # x[2]},
            v1 \in Values, v2 \in Values}

\* a label that holds brackets (re.escape admits it), the texts in which
\* its placeholder is there or comes to be there, and the dicts that give
\* it and the label B a value, in either order
BracketLabel == <<"A", "]", "A", "[", "A">>

BracketLabelTexts ==
    {<<"[", "A", "]", "[", "B", "]", "[", "A", "]">>,
     <<"[", "A", "]", "A", "[", "A", "]">>}

BracketLabelDicts ==
    {<< <<l[1], v1>>, <<l[2], v2>> >> :
        l \in {<<BracketLabel, <<"B">>>>, <<<<"B">>, BracketLabel>>},
        v1 \in Values, v2 \in Values}

InitReplace ==
    /\ args \in (LetterTexts \X Dicts)
                   \cup (BracketLabelTexts \X BracketLabelDicts)
    /\ ret = "pending"
    /\ CacheIdle
    /\ AppIdle

ReplacePlaceholders == Return(replace_placeholders(args[1], args[2]))

ReplacePlaceholdersWithRegex ==
    Return(replace_placeholders_with_regex(args[1], args[2]))

NextReplace == ReplacePlaceholders \/ ReplacePlaceholdersWithRegex

SpecReplace == InitReplace /\ [][NextReplace]_vars

\* the value the dict d gives the label l
ValueOf(d, l) == (CHOOSE i \in {d[k] : k \in DOMAIN d} : i[1] = l)[2]

\* the labels of d whose placeholder [label] starts the text
LabelsAt(text, d) ==
    {d[k][1] : k \in {i \in DOMAIN d :
                        StartsWith(text, <<"[">> \o d[i][1] \o <<"]">>)}}

\* Every [label] of the original text replaced by its value, in one pass
\* from left to right; what is inserted is not read again.
RECURSIVE Simultaneous(_, _)
Simultaneous(text, d) ==
    IF text = <<>> THEN <<>>
    ELSE IF LabelsAt(text, d) # {}
    THEN LET l == CHOOSE x \in LabelsAt(text, d) : TRUE
         IN  ValueOf(d, l)
                 \o Simultaneous(SubSeq(text, Len(l) + 3, Len(text)), d)
    ELSE <<Head(text)>> \o Simultaneous(Tail(text), d)

\* C9 as stated: replace_placeholders is the single-pass substitution: its
\* result is the original text with every [label] replaced by its value
\* verbatim, whatever the order of the dict.
C9_SinglePass ==
    ret # "pending" => ret = Simultaneous(args[1], args[2])

HasBracketedLabel(text, d) ==
    \E k \in DOMAIN d : Contains(text, <<"[">> \o d[k][1] \o <<"]">>)

\* C10 as stated: the output contains no [label] for a label of the dict,
\* also when a value contains a bracketed label of the dict.
C10_NoPlaceholderLeft ==
    (ret # "pending" /\ ret # ReError) => ~HasBracketedLabel(ret, args[2])

\* the brackets of the text pair up without nesting: depth is 1 inside an
\* open bracket and 0 outside
RECURSIVE FlatFrom(_, _)
FlatFrom(text, depth) ==
    IF text = <<>> THEN depth = 0
    ELSE IF Head(text) = "[" THEN depth = 0 /\ FlatFrom(Tail(text), 1)
    ELSE IF Head(text) = "]" THEN depth = 1 /\ FlatFrom(Tail(text), 0)
    ELSE FlatFrom(Tail(text), depth)

FlatBrackets(text) == FlatFrom(text, 0)

PlainValue(v) ==
    v # <<>> /\ \A i \in DOMAIN v : v[i] \notin {"[", "]", "\\"}

PlainLabel(l) == \A i \in DOMAIN l : l[i] \notin {"[", "]"}

PlainDict(d) ==
    \A k \in DOMAIN d : PlainLabel(d[k][1]) /\ PlainValue(d[k][2])

\* C10 amended: for a text whose brackets pair up without nesting and a dict
\* whose labels contain no bracket and whose values are non-empty and
\* contain no bracket and no backslash, the output of replace_placeholders
\* contains no [label] for a label of the dict.
C10_NoPlaceholderLeftFlat ==
    (ret # "pending" /\ FlatBrackets(args[1]) /\ PlainDict(args[2])) =>
        /\ ret # ReError
        /\ ~HasBracketedLabel(ret, args[2])

\* C10 witness: the text held the placeholders of both labels of the dict and
\* both were replaced by plain values
C10_Witness ==
    /\ ret # "pending"
    /\ FlatBrackets(args[1])
    /\ PlainDict(args[2])
    /\ Len(args[2]) = 2
    /\ \A k \in DOMAIN args[2] :
          Contains(args[1], <<"[">> \o args[2][k][1] \o <<"]">>)
    /\ ret # ReError
    /\ ~HasBracketedLabel(ret, args[2])

(* ------------------------------------------------------------------ *)
(* app.py: the Streamlit script.  Every interaction of the user runs   *)
(* main from the top; a button reads True only in the run its press    *)
(* triggers, the other widgets keep their values.                      *)
(* ------------------------------------------------------------------ *)
\* what extract_text_from_pdf of app.py returns when pdfplumber raises
PdfErrorText == <<"E">>

\* app.py extract_text_from_pdf: the text it returns and what it shows; when
\* pdfplumber raises it shows "Error reading PDF" and returns the error text
app_extract_text_from_pdf(pdf_file) ==
    IF pdf_file.corrupt
    THEN [text |-> PdfErrorText, msgs |-> {"pdf_read_error"}]
    ELSE [text |-> strip(pdf_file.text), msgs |-> {}]

\* the longest prefix of the text of at most max_tokens tokens
RECURSIVE token_prefix(_, _)
token_prefix(text, max_tokens) ==
    IF text = <<>> \/ app_count_tokens(<<Head(text)>>) > max_tokens THEN <<>>
    ELSE <<Head(text)>>
             \o token_prefix(Tail(text),
                             max_tokens - app_count_tokens(<<Head(text)>>))

\* truncate_text_to_tokens: (text, tokens)
truncate_text_to_tokens(text, max_tokens) ==
    IF app_count_tokens(text) <= max_tokens THEN <<text, app_count_tokens(text)>>
    ELSE <<token_prefix(text, max_tokens), max_tokens>>

\* format_token_info: the truncated text, and the warning it shows
format_token_info(text, max_tokens) ==
    [text |-> truncate_text_to_tokens(text, max_tokens)[1],
     msgs |-> IF app_count_tokens(text) > max_tokens THEN {"truncated"} ELSE {}]

\* generate_ai_cover_letter: OpenAI(api_key=None) raises when the credential
\* is not set, before the try block; inside it every exception is reported
generate_ai_cover_letter(key, job_description, resume_text, o) ==
    IF ~key
    THEN [value |-> None, msgs |-> {}, requests |-> 0, uncaught |-> TRUE]
    ELSE IF o.kind = "ok"
    THEN [value |-> o.content, msgs |-> {}, requests |-> 1, uncaught |-> FALSE]
    ELSE [value |-> None, msgs |-> {"api_error"}, requests |-> 1,
          uncaught |-> FALSE]

\* main, run once with the widget values w, the button `pressed` reading True
\* and the completion request, if issued, answering with o: the run's record
\* and the letter it leaves in st.session_state
main(key, w, session_letter, pressed, o) ==
    LET keyMsgs == IF ~key THEN {"no_api_key", "api_key_info"} ELSE {}
        extracted == app_extract_text_from_pdf(w.resume)
        resume_text == IF w.resume.present THEN extracted.text ELSE <<>>
        resumeInfo == format_token_info(resume_text, RESUME_MAX_TOKENS)
        final_resume_text ==
            IF w.resume.present /\ Truthy(resume_text)
            THEN resumeInfo.text ELSE <<>>
        resumeMsgs ==
            IF ~w.resume.present THEN {"upload_resume"}
            ELSE IF Truthy(resume_text)
            THEN extracted.msgs \cup {"resume_uploaded"} \cup resumeInfo.msgs
            ELSE extracted.msgs \cup {"pdf_extraction_failed"}
        analyzed == pressed = "analyze" /\ Truthy(w.job_description)
        jobInfo == format_token_info(w.job_description, JOB_DESC_MAX_TOKENS)
        final_job_description == IF analyzed THEN jobInfo.text ELSE <<>>
        jobMsgs ==
            IF pressed # "analyze" THEN {}
            ELSE IF analyzed THEN {"job_desc_entered"} \cup jobInfo.msgs
            ELSE {"missing_job_desc"}
        ready == Truthy(final_resume_text) /\ Truthy(final_job_description)
        total_tokens == app_count_tokens(final_resume_text)
                            + app_count_tokens(final_job_description)
        reached == pressed = "generate" /\ ready
                       /\ total_tokens <= TOTAL_SAFE_LIMIT
        g == generate_ai_cover_letter(key, final_job_description,
                                      final_resume_text, o)
        genMsgs ==
            IF pressed # "generate" THEN {}
            ELSE IF ~ready THEN {"missing_both"}
            ELSE IF total_tokens > TOTAL_SAFE_LIMIT
            THEN {"token_limit_exceeded"}
            ELSE IF g.uncaught THEN {}
            ELSE IF Truthy(g.value) THEN {"cover_letter_generated"}
            ELSE g.msgs \cup {"generation_failed"}
        letter == IF reached /\ ~g.uncaught /\ Truthy(g.value)
                  THEN g.value ELSE session_letter
        aborted == reached /\ g.uncaught
    IN  [session |-> letter,
         run |-> [fn |-> "main", pressed |-> pressed,
                  msgs |-> keyMsgs \cup resumeMsgs \cup jobMsgs \cup genMsgs,
                  processed |-> w.resume.present \/ analyzed,
                  requests |-> IF reached THEN g.requests ELSE 0,
                  uncaught |-> aborted,
                  reached_generate |-> reached,
                  final_resume_text |-> final_resume_text,
                  final_job_description |-> final_job_description,
                  form_shown |-> ~aborted /\ Truthy(letter)]]

\* the files the user uploads and the job descriptions the user enters
Uploads ==
    {[present |-> TRUE, corrupt |-> FALSE, text |-> <<"a">>],
     [present |-> TRUE, corrupt |-> FALSE, text |-> <<"R", "a">>],
     [present |-> TRUE, corrupt |-> FALSE, text |-> <<" ">>],
     [present |-> TRUE, corrupt |-> TRUE, text |-> <<>>]}

JobDescriptions == {<<>>, <<"a">>, <<"J", "a">>}

InitApp ==
    /\ api_key \in BOOLEAN
    /\ session_state = <<>>
    /\ cache_data = <<>>
    /\ now = 0
    /\ last = NoCall
    /\ stored_by = <<>>
    /\ tokenizer_ok = TRUE
    /\ PureIdle
    /\ AppIdle

\* one run of the script
Rerun(w, pressed, o) ==
    LET m == main(api_key, w, app_session, pressed, o)
    IN  /\ widgets' = w
        /\ app_session' = m.session
        /\ run' = m.run
        /\ UNCHANGED <<api_key, tokenizer_ok, session_state, cache_data, now, last,
                       stored_by, args, ret>>

\* the user uploads a file, or removes it
UploadResume ==
    \E f \in Uploads \cup {NoFile} :
        Rerun([widgets EXCEPT !.resume = f], "none",
              CHOOSE o \in ApiOutcomes : TRUE)

\* the user edits the job description
EnterJobDescription ==
    \E t \in JobDescriptions :
        Rerun([widgets EXCEPT !.job_description = t], "none",
              CHOOSE o \in ApiOutcomes : TRUE)

\* the user presses "Analyze Job Description"
PressAnalyze == Rerun(widgets, "analyze", CHOOSE o \in ApiOutcomes : TRUE)

\* the user presses "Generate Cover Letter"
PressGenerate == \E o \in ApiOutcomes : Rerun(widgets, "generate", o)

\* generate_ai_cover_letter called on its own
CallGenerateAiCoverLetter ==
    \E r \in {<<"a">>}, j \in {<<"a">>}, o \in ApiOutcomes :
        LET g == generate_ai_cover_letter(api_key, j, r, o)
        IN  /\ run' = [NoRun EXCEPT !.fn = "generate_ai_cover_letter",
                                    !.msgs = g.msgs,
                                    !.requests = g.requests,
                                    !.uncaught = g.uncaught,
                                    !.reached_generate = TRUE]
            /\ UNCHANGED <<api_key, tokenizer_ok, session_state, cache_data, now, last,
                           stored_by, args, ret, app_session, widgets>>

NextApp ==
    \/ UploadResume
    \/ EnterJobDescription
    \/ PressAnalyze
    \/ PressGenerate
    \/ CallGenerateAiCoverLetter

SpecApp == InitApp /\ [][NextApp]_vars

\* C6 as stated: with the credential absent, a generation entry point issues
\* no completion request, processes no input, raises nothing uncaught and
\* shows the error that the credential is not set.
C6_MissingKeyBlocks ==
    (~api_key /\ run.fn # "none") =>
        /\ run.requests = 0
        /\ ~run.processed
        /\ ~run.uncaught
        /\ "no_api_key" \in run.msgs

(* ------------------------------------------------------------------ *)
(* utils.py: extract_placeholders                                      *)
(* ------------------------------------------------------------------ *)
\* the index of the first "]" of the text, 0 if it has none
RECURSIVE first_close(_)
first_close(text) ==
    IF text = <<>> THEN 0
    ELSE IF Head(text) = "]" THEN 1
    ELSE LET k == first_close(Tail(text)) IN IF k = 0 THEN 0 ELSE k + 1

\* re.findall(PLACEHOLDER_PATTERN, text): the pattern \[([^\]]+)\] matches
\* at a "[" followed by one or more characters other than "]" and a "]"; the
\* group is what lies between; the scan goes on after the match
RECURSIVE re_findall(_)
re_findall(text) ==
    IF text = <<>> THEN <<>>
    ELSE IF Head(text) # "[" THEN re_findall(Tail(text))
    ELSE LET rest == Tail(text)
             j == first_close(rest)
         IN  IF j > 1
             THEN <<SubSeq(rest, 1, j - 1)>>
                      \o re_findall(SubSeq(rest, j + 1, Len(rest)))
             ELSE re_findall(rest)

\* the elements of a sequence
Range(seq) == {seq[i] : i \in DOMAIN seq}

\* list(set(matches)): the distinct matches, in one of the orders a set can
\* be listed in
ListsOfSet(S) ==
    {f \in [1..Cardinality(S) -> S] :
        \A i, j \in 1..Cardinality(S) : i # j => f[i] # f[j]}

\* extract_placeholders(text): the lists it can return
extract_placeholders(text) == ListsOfSet(Range(re_findall(text)))

InitExtract ==
    /\ args \in {<<t>> : t \in LetterTexts}
    /\ ret = "pending"
    /\ CacheIdle
    /\ AppIdle

ExtractPlaceholders ==
    \E labels \in extract_placeholders(args[1]) : Return(<<labels>>)

SpecExtract == InitExtract /\ [][ExtractPlaceholders]_vars

\* C11 as stated: extract_placeholders returns no label twice, every label
\* is the inner text of a span [label] of the text, and no label contains a
\* bracket.
C11_FlatLabels ==
    ret # "pending" =>
        LET labels == ret[1]
        IN  /\ \A i, j \in DOMAIN labels : i # j => labels[i] # labels[j]
            /\ \A i \in DOMAIN labels :
                  /\ Contains(args[1], <<"[">> \o labels[i] \o <<"]">>)
                  /\ \A k \in DOMAIN labels[i] :
                        labels[i][k] \notin {"[", "]"}

(* ------------------------------------------------------------------ *)
(* utils.py: determine_input_type                                      *)
(* ------------------------------------------------------------------ *)
\* constants.py: the keyword groups, in the order the dict lists them
INPUT_TYPE_KEYWORDS ==
    <<[type |-> "email",
        keywords |-> <<<<"e", "m", "a", "i", "l">>,
                      <<"m", "a", "i", "l">>>>],
       [type |-> "phone",
        keywords |-> <<<<"p", "h", "o", "n", "e">>,
                      <<"m", "o", "b", "i", "l", "e">>,
                      <<"t", "e", "l">>>>],
       [type |-> "address",
        keywords |-> <<<<"a", "d", "d", "r", "e", "s", "s">>,
                      <<"s", "t", "r", "e", "e", "t">>>>],
       [type |-> "date",
        keywords |-> <<<<"d", "a", "t", "e">>>>],
       [type |-> "name",
        keywords |-> <<<<"n", "a", "m", "e">>>>]>>

UpperCase == <<"A", "B", "C", "D", "E", "F", "G", "H", "I", "J", "K", "L", "M", "N", "O", "P", "Q", "R", "S", "T", "U", "V", "W", "X", "Y", "Z">>
LowerCase == <<"a", "b", "c", "d", "e", "f", "g", "h", "i", "j", "k", "l", "m", "n", "o", "p", "q", "r", "s", "t", "u", "v", "w", "x", "y", "z">>

\* str.lower()
lower(text) ==
    [i \in DOMAIN text |->
        IF \E k \in DOMAIN UpperCase : UpperCase[k] = text[i]
        THEN LowerCase[CHOOSE k \in DOMAIN UpperCase : UpperCase[k] = text[i]]
        ELSE text[i]]

\* any(keyword in placeholder_lower for keyword in keywords)
any_keyword_in(keywords, placeholder_lower) ==
    \E k \in DOMAIN keywords : Contains(placeholder_lower, keywords[k])

\* determine_input_type(placeholder): the type of the first group one of
\* whose keywords occurs in the lower-cased placeholder, 'text' if none does
determine_input_type(placeholder) ==
    LET placeholder_lower == lower(placeholder)
        hits == {g \in DOMAIN INPUT_TYPE_KEYWORDS :
                    any_keyword_in(INPUT_TYPE_KEYWORDS[g].keywords,
                                   placeholder_lower)}
    IN  IF hits = {} THEN "text"
        ELSE INPUT_TYPE_KEYWORDS[CHOOSE g \in hits :
                                    \A h \in hits : g <= h].type

MaxWords == 2

Words ==
    {<<"E", "m", "a", "i", "l">>,
     <<"M", "a", "i", "l">>,
     <<"P", "h", "o", "n", "e">>,
     <<"M", "o", "b", "i", "l", "e">>,
     <<"T", "e", "l">>,
     <<"A", "d", "d", "r", "e", "s", "s">>,
     <<"S", "t", "r", "e", "e", "t">>,
     <<"D", "a", "t", "e">>,
     <<"N", "a", "m", "e">>,
     <<"F", "o", "o">>,
     <<"Y", "o", "u", "r">>,
     <<"S", "t", "a", "r", "t">>,
     <<" ">>}

\* the placeholders made of up to n words
RECURSIVE Phrases(_)
Phrases(n) ==
    IF n = 0 THEN {<<>>}
    ELSE LET shorter == Phrases(n - 1)
         IN  shorter \cup {p \o w : p \in shorter, w \in Words}

InitClassify ==
    /\ args \in {<<p>> : p \in Phrases(MaxWords)}
    /\ ret = "pending"
    /\ CacheIdle
    /\ AppIdle

DetermineInputType == Return(determine_input_type(args[1]))

SpecClassify == InitClassify /\ [][DetermineInputType]_vars

\* the claim's reading of the label: group g has a keyword in it
GroupMatches(g, label) ==
    \E k \in DOMAIN INPUT_TYPE_KEYWORDS[g].keywords :
        Contains(lower(label), INPUT_TYPE_KEYWORDS[g].keywords[k])

\* C12 as stated: determine_input_type returns the first category, in the
\* order email, phone, address, date, name, one of whose keywords is a
\* substring of the lower-cased label, and the category generic when no
\* keyword of any group matches.
C12_FirstCategoryOrGeneric ==
    ret # "pending" =>
        /\ \A g \in DOMAIN INPUT_TYPE_KEYWORDS :
              (/\ GroupMatches(g, args[1])
               /\ \A h \in 1..(g - 1) : ~GroupMatches(h, args[1]))
                  => ret = INPUT_TYPE_KEYWORDS[g].type
        /\ (\A g \in DOMAIN INPUT_TYPE_KEYWORDS : ~GroupMatches(g, args[1]))
              => ret = "generic"

(* ------------------------------------------------------------------ *)
(* utils.py: validate_required_fields; app.py: the form's submission   *)
(* ------------------------------------------------------------------ *)
\* dict.get(key, default)
get(dict, key, default) == IF key \in DOMAIN dict THEN dict[key] ELSE default

\* validate_required_fields without the strip()
validate_required_fields_no_strip(filled_values, required_placeholders) ==
    LET NoValue(placeholder) == get(filled_values, placeholder, <<>>) = <<>>
        empty == SelectSeq(required_placeholders, NoValue)
    IN  <<Len(empty) = 0, empty>>

\* the loop of validate_required_fields: the placeholders of the list, in
\* its order, whose value is absent or blank
RECURSIVE empty_fields(_, _)
empty_fields(filled_values, required_placeholders) ==
    IF required_placeholders = <<>> THEN <<>>
    ELSE LET placeholder == Head(required_placeholders)
             rest == empty_fields(filled_values, Tail(required_placeholders))
         IN  IF strip(get(filled_values, placeholder, <<>>)) = <<>>
             THEN <<placeholder>> \o rest
             ELSE rest

\* validate_required_fields(filled_values, required_placeholders)
validate_required_fields(filled_values, required_placeholders) ==
    LET empty == empty_fields(filled_values, required_placeholders)
    IN  <<Len(empty) = 0, empty>>

\* datetime.datetime.now().strftime("%B %d, %Y"), abbreviated
Today == <<"d">>

\* get_generic_personalization_form(placeholders): entered holds what the
\* user typed into the field of each placeholder; a date field is filled
\* with today's date whatever was typed. Returns the personal_info dict when
\* the form was submitted with no blank value, None otherwise.
get_generic_personalization_form(entered, submitted) ==
    LET personal_info ==
            [p \in DOMAIN entered |->
                IF determine_input_type(p) = "date" THEN Today
                ELSE entered[p]]
        blank == {p \in DOMAIN personal_info : strip(personal_info[p]) = <<>>}
    IN  IF ~submitted THEN <<None, {}>>
        ELSE IF blank # {} THEN <<None, {"fill_in_all_fields"}>>
        ELSE <<"personal_info", personal_info>>

MaxRequired == 2

FieldLabels == {<<"N", "a", "m", "e">>,
                <<"P", "h", "o", "n", "e">>,
                <<"D", "a", "t", "e">>}

FieldValues == {<<>>, <<" ">>, <<"x">>, <<" ", "x">>}

\* the dicts over some of the labels
FieldDicts ==
    UNION {[labels -> FieldValues] : labels \in SUBSET FieldLabels}

InitFields ==
    /\ \/ args \in {<<"validate_required_fields", d, r>> :
                       d \in FieldDicts,
                       r \in TextsUpTo(FieldLabels, MaxRequired)}
       \/ args \in {<<"get_generic_personalization_form", d, b>> :
                       d \in FieldDicts \ {<<>>}, b \in BOOLEAN}
    /\ ret = "pending"
    /\ CacheIdle
    /\ AppIdle

ValidateRequiredFields ==
    /\ args[1] = "validate_required_fields"
    /\ Return(validate_required_fields(args[2], args[3]))

GetGenericPersonalizationForm ==
    /\ args[1] = "get_generic_personalization_form"
    /\ Return(get_generic_personalization_form(args[2], args[3]))

NextFields == ValidateRequiredFields \/ GetGenericPersonalizationForm

SpecFields == InitFields /\ [][NextFields]_vars

\* the value of the label is missing from the dict or blank
MissingOrBlank(dict, label) ==
    label \notin DOMAIN dict \/ strip(dict[label]) = <<>>

\* C13: validate_required_fields returns (ok, empty) where empty lists, in
\* the order of required, exactly the required labels whose value is missing
\* or empty after trimming, and ok is true iff that list is empty; the form
\* hands over a personalization map only when it was submitted and every
\* label of the map has a non-empty value after trimming.
C13_EmptyFieldsInOrder ==
    /\ (ret # "pending" /\ args[1] = "validate_required_fields") =>
          LET IsEmpty(label) == MissingOrBlank(args[2], label)
          IN  /\ ret[2] = SelectSeq(args[3], IsEmpty)
              /\ ret[1] = (Len(ret[2]) = 0)
    /\ (ret # "pending" /\ args[1] = "get_generic_personalization_form") =>
          (ret[1] # None =>
              /\ args[3]
              /\ DOMAIN ret[2] = DOMAIN args[2]
              /\ \A label \in DOMAIN ret[2] : strip(ret[2][label]) # <<>>)

\* C13 witness: {"Name": "x", "Phone": " "} checked against [Name, Phone]
\* gives (False, [Phone])
C13_Witness ==
    /\ ret # "pending"
    /\ args[1] = "validate_required_fields"
    /\ args[3] = <<<<"N", "a", "m", "e">>, <<"P", "h", "o", "n", "e">>>>
    /\ DOMAIN args[2] = {<<"N", "a", "m", "e">>, <<"P", "h", "o", "n", "e">>}
    /\ args[2][<<"N", "a", "m", "e">>] = <<"x">>
    /\ args[2][<<"P", "h", "o", "n", "e">>] = <<" ">>
    /\ ret = <<FALSE, <<<<"P", "h", "o", "n", "e">>>>>>

(* ------------------------------------------------------------------ *)
(* utils.py count_tokens under a failing tokenizer, and its callers    *)
(* ------------------------------------------------------------------ *)
\* tiktoken either works or raises (tokenizer_ok) for the whole call
InitBudget ==
    /\ \/ args \in {<<"count_tokens", t, <<>>>> : t \in BudgetTexts}
       \/ args \in {<<"validate_token_limits", r, j>> :
                       r \in BudgetTexts, j \in BudgetTexts}
       \/ args \in {<<"generate_cover_letter_with_cache", r, j>> :
                       r \in BudgetTexts, j \in BudgetTexts}
    /\ ret = "pending"
    /\ tokenizer_ok \in BOOLEAN
    /\ StoresIdle
    /\ AppIdle

CountTokens ==
    /\ args[1] = "count_tokens"
    /\ Return(<<count_tokens(args[2])>>)

ValidateTokenLimitsBudget ==
    /\ args[1] = "validate_token_limits"
    /\ Return(validate_token_limits(args[2], args[3]))

\* a call of generate_cover_letter_with_cache for the pair: on a miss the
\* body runs and what it returns is written to st.cache_data, a later call
\* is answered from there; ret is (value, messages shown, requests sent,
\* where the value came from)
GenerateCoverLetterWithCache ==
    /\ args[1] = "generate_cover_letter_with_cache"
    /\ \E o \in ApiOutcomes :
          LET g == generate_cover_letter_with_cache(cache_data, now, api_key,
                       args[2], args[3],
                       calculate_content_hash(args[2], args[3]), o)
          IN  /\ ret' = <<g.value, g.msgs, g.requests, g.source>>
              /\ cache_data' = g.store
    /\ UNCHANGED <<api_key, tokenizer_ok, session_state, now, last, stored_by,
                   args, app_session, widgets, run>>

NextBudget ==
    \/ CountTokens
    \/ ValidateTokenLimitsBudget
    \/ GenerateCoverLetterWithCache

SpecBudget == InitBudget /\ [][NextBudget]_vars

\* C14: while the tokenizer fails, count_tokens returns 0 for every text,
\* validate_token_limits returns (True, "") for every pair however large, and
\* generate_cover_letter_with_cache reports no token limit: whenever its body
\* runs it sends the completion request.
C14_FailingTokenizerAdmitsAll ==
    (ret # "pending" /\ ~tokenizer_ok) =>
        /\ args[1] = "count_tokens" => ret = <<0>>
        /\ args[1] = "validate_token_limits" => ret = <<TRUE, <<>>>>
        /\ args[1] = "generate_cover_letter_with_cache" =>
              /\ "token_limit_exceeded" \notin ret[2]
              /\ ret[4] = "generated" => ret[3] = 1

\* C14 witness: with the tokenizer failing, a resume over RESUME_MAX_TOKENS
\* and a job description over JOB_DESC_MAX_TOKENS went to the completion
\* request
C14_Witness ==
    /\ ret # "pending"
    /\ ~tokenizer_ok
    /\ args[1] = "generate_cover_letter_with_cache"
    /\ encode_len(args[2]) > RESUME_MAX_TOKENS
    /\ encode_len(args[3]) > JOB_DESC_MAX_TOKENS
    /\ ret[4] = "generated"
    /\ ret[3] = 1

(* ------------------------------------------------------------------ *)
(* app.py main: Analyze, then Generate                                 *)
(* ------------------------------------------------------------------ *)
\* the run that Analyze triggered accepted the resume and the job
\* description, with the credential set
AnalyzedRun ==
    /\ api_key
    /\ run.fn = "main"
    /\ run.pressed = "analyze"
    /\ ~widgets.resume.corrupt
    /\ "resume_uploaded" \in run.msgs
    /\ "job_desc_entered" \in run.msgs

\* C15 as stated: when the user, having uploaded a resume and entered a job
\* description, presses Analyze and then Generate, the run that Generate
\* triggers reaches the call of generate_ai_cover_letter and does not show
\* "Please upload a resume and analyze a job description first".
C15_GenerateAfterAnalyze ==
    [][(AnalyzedRun /\ run'.fn = "main" /\ run'.pressed = "generate") =>
           (run'.reached_generate /\ "missing_both" \notin run'.msgs)]_vars

====
